---- MODULE Spec2Model ----
(***************************************************************************)
(* Model of the Go rules engine (go_game.engine): board, group analysis,   *)
(* move rules, game state machine, territory scoring and session replay.   *)
(* Spec is the caller playing, passing, scoring and loading sessions;      *)
(* SpecSearch runs one group search step by step.                          *)
(*                                                                         *)
(* Encoding.  A Point is the pair <<row, col>>.  A stone is "B", "W" or    *)
(* Empty (Python None in a grid cell).  Optional[Point] and                *)
(* Optional[tuple] values are sequences of length 0 (None) or 1.           *)
(* A Board is [size, grid] with grid a function from the board's points.   *)
(* An engine call that raises is modelled by a result record whose err     *)
(* field names the exception class.                                        *)
(***************************************************************************)
EXTENDS Integers, Sequences, FiniteSets, TLC

VARIABLES
    gs,     \* the GameState the caller currently holds
    prev,   \* the GameState the last operation started from
    op,     \* the last operation: its name, argument and outcome
    calls,  \* operations completed without raising since new / load
    before, \* the board on which the last record of gs.history was made
    first_player, \* the next_player given to the new() the game started from
    srch,   \* a group search in progress: its locals and its position
    teval,  \* a territory evaluation in progress: its locals and its position
    app     \* the GoApp window: its fields and the callback it has scheduled

vars == <<gs, prev, op, calls, before, first_player, srch, teval, app>>

-----------------------------------------------------------------------------
(* Bounds *)

MaxSize == 3
MaxCalls == 2
MaxStones == 4

-----------------------------------------------------------------------------
(* types.py *)

BLACK == "B"
WHITE == "W"
Color == {BLACK, WHITE}
Empty == "None"

None == << >>
Some(x) == << x >>

opponent(c) == IF c = BLACK THEN WHITE ELSE BLACK

Point(r, c) == << r, c >>

Range(s) == { s[i] : i \in 1..Len(s) }

\* F applied to the value of v, with v evaluated once.
Let(v, F(_)) == CHOOSE y \in { F(x) : x \in {v} } : TRUE

iter_neighbors(p, size) ==
    LET r == p[1]
        c == p[2]
    IN  (IF r > 0 THEN << Point(r - 1, c) >> ELSE << >>)
        \o (IF r < size - 1 THEN << Point(r + 1, c) >> ELSE << >>)
        \o (IF c > 0 THEN << Point(r, c - 1) >> ELSE << >>)
        \o (IF c < size - 1 THEN << Point(r, c + 1) >> ELSE << >>)

-----------------------------------------------------------------------------
(* errors.py *)

NoError == "ok"
OutOfBounds == "OutOfBounds"
OccupiedPoint == "OccupiedPoint"
SuicideMove == "SuicideMove"
KoViolation == "KoViolation"
GoError == {OutOfBounds, OccupiedPoint, SuicideMove, KoViolation}

-----------------------------------------------------------------------------
(* board.py *)

Points(size) == (0..(size - 1)) \X (0..(size - 1))

BoardEmpty(size) == [grid |-> [p \in Points(size) |-> Empty], size |-> size]

get(board, p) == board.grid[p]

place(board, p, color) ==
    [grid |-> [q \in DOMAIN board.grid |->
                 IF q = p THEN color ELSE board.grid[q]],
     size |-> board.size]

remove_many(board, points) ==
    [grid |-> [q \in DOMAIN board.grid |->
                 IF q \in points THEN Empty ELSE board.grid[q]],
     size |-> board.size]

signature(board) == board.grid

-----------------------------------------------------------------------------
(* rules.py *)

in_bounds(board, p) ==
    /\ 0 <= p[1] /\ p[1] < board.size
    /\ 0 <= p[2] /\ p[2] < board.size

RECURSIVE GroupLoop(_, _, _, _, _)
GroupLoop(board, color, stack, group, liberties) ==
    IF stack = << >>
    THEN [group |-> group, liberties |-> liberties]
    ELSE LET p == stack[Len(stack)]
             rest == SubSeq(stack, 1, Len(stack) - 1)
         IN  IF p \in group
             THEN GroupLoop(board, color, rest, group, liberties)
             ELSE LET group2 == group \cup {p}
                      nbs == iter_neighbors(p, board.size)
                      libs2 == liberties \cup
                               { nb \in Range(nbs) : get(board, nb) = Empty }
                      pushed == SelectSeq(nbs, LAMBDA nb :
                                    /\ get(board, nb) = color
                                    /\ nb \notin group2)
                  IN  GroupLoop(board, color, rest \o pushed, group2, libs2)

\* A search that looks at the start stone only.
group_and_liberties_lone(board, start) ==
    [group |-> {start},
     liberties |-> { nb \in Range(iter_neighbors(start, board.size)) :
                       get(board, nb) = Empty }]

group_and_liberties(board, start) ==
    GroupLoop(board, get(board, start), << start >>, {}, {})

\* Capture that clears the adjacent stone instead of its whole group.
capturable_enemy_stones(board, placed_at, color) ==
    { nb \in Range(iter_neighbors(placed_at, board.size)) :
        /\ get(board, nb) = opponent(color)
        /\ Cardinality(group_and_liberties(board, nb).liberties) = 0 }

capturable_enemy_groups(board, placed_at, color) ==
    UNION { IF get(board, nb) = opponent(color)
            THEN LET gl == group_and_liberties(board, nb)
                 IN  IF Cardinality(gl.liberties) = 0 THEN gl.group ELSE {}
            ELSE {}
          : nb \in Range(iter_neighbors(placed_at, board.size)) }

RECURSIVE SortedPoints(_, _, _)
SortedPoints(S, size, i) ==
    \* sorted(captured_points, key=(row, col)): row-major enumeration
    IF i >= size * size
    THEN << >>
    ELSE LET p == Point(i \div size, i % size)
         IN  (IF p \in S THEN << p >> ELSE << >>) \o SortedPoints(S, size, i + 1)

Raise(e, board) ==
    [err |-> e, board |-> board, captured |-> 0, captured_points |-> << >>]

\* Stones counted once for every neighbour of the placed stone that belongs
\* to a captured group.
RECURSIVE count_per_neighbour(_, _, _, _)
count_per_neighbour(board, nbs, color, i) ==
    IF i > Len(nbs) THEN 0
    ELSE LET gl == group_and_liberties(board, nbs[i])
             n == IF get(board, nbs[i]) = opponent(color)
                     /\ Cardinality(gl.liberties) = 0
                  THEN Cardinality(gl.group) ELSE 0
         IN  n + count_per_neighbour(board, nbs, color, i + 1)

\* apply_move whose capture count is not deduplicated.
apply_move_count_per_neighbour(board, p, color, ko_forbidden_signature) ==
    IF ~in_bounds(board, p) THEN Raise(OutOfBounds, board)
    ELSE IF get(board, p) # Empty THEN Raise(OccupiedPoint, board)
    ELSE
      LET b1 == place(board, p, color)
          captured_points == capturable_enemy_groups(b1, p, color)
          b2 == IF captured_points # {} THEN remove_many(b1, captured_points)
                ELSE b1
          gl == group_and_liberties(b2, p)
      IN  IF Cardinality(gl.liberties) = 0 THEN Raise(SuicideMove, board)
          ELSE IF /\ ko_forbidden_signature # None
                  /\ Some(signature(b2)) = ko_forbidden_signature
               THEN Raise(KoViolation, board)
          ELSE [err |-> NoError,
                board |-> b2,
                captured |-> count_per_neighbour(b1, iter_neighbors(p, board.size),
                                                 color, 1),
                captured_points |-> SortedPoints(captured_points, board.size, 0)]

\* apply_move with the suicide test made before the captures are removed.
apply_move_suicide_first(board, p, color, ko_forbidden_signature) ==
    IF ~in_bounds(board, p) THEN Raise(OutOfBounds, board)
    ELSE IF get(board, p) # Empty THEN Raise(OccupiedPoint, board)
    ELSE
      LET b1 == place(board, p, color)
          captured_points == capturable_enemy_groups(b1, p, color)
          b2 == IF captured_points # {} THEN remove_many(b1, captured_points)
                ELSE b1
          gl == group_and_liberties(b1, p)
      IN  IF Cardinality(gl.liberties) = 0 THEN Raise(SuicideMove, board)
          ELSE IF /\ ko_forbidden_signature # None
                  /\ Some(signature(b2)) = ko_forbidden_signature
               THEN Raise(KoViolation, board)
          ELSE [err |-> NoError,
                board |-> b2,
                captured |-> Cardinality(captured_points),
                captured_points |-> SortedPoints(captured_points, board.size, 0)]

\* apply_move without the occupancy test.
apply_move_overwrite(board, p, color, ko_forbidden_signature) ==
    IF ~in_bounds(board, p) THEN Raise(OutOfBounds, board)
    ELSE
      LET b1 == place(board, p, color)
          captured_points == capturable_enemy_groups(b1, p, color)
          b2 == IF captured_points # {} THEN remove_many(b1, captured_points)
                ELSE b1
          gl == group_and_liberties(b2, p)
      IN  IF Cardinality(gl.liberties) = 0 THEN Raise(SuicideMove, board)
          ELSE IF /\ ko_forbidden_signature # None
                  /\ Some(signature(b2)) = ko_forbidden_signature
               THEN Raise(KoViolation, board)
          ELSE [err |-> NoError,
                board |-> b2,
                captured |-> Cardinality(captured_points),
                captured_points |-> SortedPoints(captured_points, board.size, 0)]

\* apply_move without the suicide test.
apply_move_allow_suicide(board, p, color, ko_forbidden_signature) ==
    IF ~in_bounds(board, p) THEN Raise(OutOfBounds, board)
    ELSE IF get(board, p) # Empty THEN Raise(OccupiedPoint, board)
    ELSE
      LET b1 == place(board, p, color)
          captured_points == capturable_enemy_groups(b1, p, color)
          b2 == IF captured_points # {} THEN remove_many(b1, captured_points)
                ELSE b1
      IN  IF /\ ko_forbidden_signature # None
             /\ Some(signature(b2)) = ko_forbidden_signature
          THEN Raise(KoViolation, board)
          ELSE [err |-> NoError,
                board |-> b2,
                captured |-> Cardinality(captured_points),
                captured_points |-> SortedPoints(captured_points, board.size, 0)]

apply_move(board, p, color, ko_forbidden_signature) ==
    IF ~in_bounds(board, p) THEN Raise(OutOfBounds, board)
    ELSE IF get(board, p) # Empty THEN Raise(OccupiedPoint, board)
    ELSE
      LET b1 == place(board, p, color)
          captured_points == capturable_enemy_groups(b1, p, color)
          b2 == IF captured_points # {} THEN remove_many(b1, captured_points)
                ELSE b1
          gl == group_and_liberties(b2, p)
      IN  IF Cardinality(gl.liberties) = 0 THEN Raise(SuicideMove, board)
          ELSE IF /\ ko_forbidden_signature # None
                  /\ Some(signature(b2)) = ko_forbidden_signature
               THEN Raise(KoViolation, board)
          ELSE [err |-> NoError,
                board |-> b2,
                captured |-> Cardinality(captured_points),
                captured_points |-> SortedPoints(captured_points, board.size, 0)]

-----------------------------------------------------------------------------
(* game_state.py *)

MoveRecord(color, point, captured) ==
    [color |-> color, point |-> point, captured |-> captured]

New(size, next_player) ==
    [board |-> BoardEmpty(size),
     next_player |-> next_player,
     captures_black |-> 0,
     captures_white |-> 0,
     ko_forbidden_signature |-> None,
     last_move |-> None,
     consecutive_passes |-> 0,
     is_over |-> FALSE,
     history |-> << >>]

captures_after_other(self, captured) ==
    IF self.next_player = BLACK
    THEN << self.captures_black, self.captures_white + captured >>
    ELSE << self.captures_black + captured, self.captures_white >>

\* The capture totals <<captures_black, captures_white>> after the mover
\* took `captured` stones.
captures_after(self, captured) ==
    IF self.next_player = BLACK
    THEN << self.captures_black + captured, self.captures_white >>
    ELSE << self.captures_black, self.captures_white + captured >>

new_ko_only_groups(prev_signature, captured) ==
    IF captured > 1 THEN Some(prev_signature) ELSE None

new_ko_any_capture(prev_signature, captured) ==
    IF captured >= 1 THEN Some(prev_signature) ELSE None

new_ko(prev_signature, captured) ==
    IF captured = 1 THEN Some(prev_signature) ELSE None

\* The successor GameState built from a MoveResult.
play_result_keep_passes(self, p, res) ==
    [board |-> res.board,
     next_player |-> opponent(self.next_player),
     captures_black |-> captures_after(self, res.captured)[1],
     captures_white |-> captures_after(self, res.captured)[2],
     ko_forbidden_signature |-> new_ko(signature(self.board), res.captured),
     last_move |-> Some(p),
     consecutive_passes |-> self.consecutive_passes,
     is_over |-> FALSE,
     history |-> Append(self.history,
                        MoveRecord(self.next_player, Some(p), res.captured))]

\* A successor that does not record the point played as last_move.
play_result_no_last_move(self, p, res) ==
    [board |-> res.board,
     next_player |-> opponent(self.next_player),
     captures_black |-> captures_after(self, res.captured)[1],
     captures_white |-> captures_after(self, res.captured)[2],
     ko_forbidden_signature |-> new_ko(signature(self.board), res.captured),
     last_move |-> self.last_move,
     consecutive_passes |-> 0,
     is_over |-> FALSE,
     history |-> Append(self.history,
                        MoveRecord(self.next_player, Some(p), res.captured))]

play_result(self, p, res) ==
    [board |-> res.board,
     next_player |-> opponent(self.next_player),
     captures_black |-> captures_after(self, res.captured)[1],
     captures_white |-> captures_after(self, res.captured)[2],
     ko_forbidden_signature |-> new_ko(signature(self.board), res.captured),
     last_move |-> Some(p),
     consecutive_passes |-> 0,
     is_over |-> FALSE,
     history |-> Append(self.history,
                        MoveRecord(self.next_player, Some(p), res.captured))]

\* A pass that keeps the ko memory.
pass_turn_keeps_ko(self) ==
    IF self.is_over THEN self
    ELSE
      LET new_passes == self.consecutive_passes + 1
          over == new_passes >= 2
          new_hist == Append(self.history, MoveRecord(self.next_player, None, 0))
      IN  [board |-> self.board,
           next_player |-> opponent(self.next_player),
           captures_black |-> self.captures_black,
           captures_white |-> self.captures_white,
           ko_forbidden_signature |-> self.ko_forbidden_signature,
           last_move |-> None,
           consecutive_passes |-> new_passes,
           is_over |-> over,
           history |-> new_hist]

\* A pass that leaves the turn with the player who passed.
pass_turn_same_player(self) ==
    IF self.is_over THEN self
    ELSE
      LET new_passes == self.consecutive_passes + 1
          over == new_passes >= 2
          new_hist == Append(self.history, MoveRecord(self.next_player, None, 0))
      IN  [board |-> self.board,
           next_player |-> self.next_player,
           captures_black |-> self.captures_black,
           captures_white |-> self.captures_white,
           ko_forbidden_signature |-> None,
           last_move |-> None,
           consecutive_passes |-> new_passes,
           is_over |-> over,
           history |-> new_hist]

pass_turn(self) ==
    IF self.is_over THEN self
    ELSE
      LET new_passes == self.consecutive_passes + 1
          over == new_passes >= 2
          new_hist == Append(self.history, MoveRecord(self.next_player, None, 0))
      IN  [board |-> self.board,
           next_player |-> opponent(self.next_player),
           captures_black |-> self.captures_black,
           captures_white |-> self.captures_white,
           ko_forbidden_signature |-> None,
           last_move |-> None,
           consecutive_passes |-> new_passes,
           is_over |-> over,
           history |-> new_hist]

\* play without the ko_forbidden_signature keyword argument.
play_no_ko(self, p) ==
    IF self.is_over THEN [err |-> NoError, state |-> self]
    ELSE LET res == apply_move(self.board, p, self.next_player, None)
         IN  IF res.err # NoError THEN [err |-> res.err, state |-> self]
             ELSE [err |-> NoError, state |-> play_result(self, p, res)]

\* play without the terminal guard.
play_unguarded(self, p) ==
    LET res == apply_move(self.board, p, self.next_player,
                          self.ko_forbidden_signature)
    IN  IF res.err # NoError THEN [err |-> res.err, state |-> self]
        ELSE [err |-> NoError, state |-> play_result(self, p, res)]

\* play that hands the turn over when the move is rejected.
play_passes_on_error(self, p) ==
    IF self.is_over THEN [err |-> NoError, state |-> self]
    ELSE LET res == apply_move(self.board, p, self.next_player,
                               self.ko_forbidden_signature)
         IN  IF res.err # NoError
             THEN [err |-> res.err, state |-> pass_turn(self)]
             ELSE [err |-> NoError, state |-> play_result(self, p, res)]

\* play returns [err, state]; state is the returned GameState, or self when
\* the call raised (the caller's reference is not rebound).
play(self, p) ==
    IF self.is_over THEN [err |-> NoError, state |-> self]
    ELSE LET res == apply_move(self.board, p, self.next_player,
                               self.ko_forbidden_signature)
         IN  IF res.err # NoError THEN [err |-> res.err, state |-> self]
             ELSE [err |-> NoError, state |-> play_result(self, p, res)]

\* legal_moves that tries each point without the ko memory.
RECURSIVE LegalLoopNoKo(_, _)
LegalLoopNoKo(self, i) ==
    LET size == self.board.size
    IN  IF i >= size * size THEN << >>
        ELSE LET p == Point(i \div size, i % size)
                 ok == /\ get(self.board, p) = Empty
                       /\ apply_move(self.board, p, self.next_player,
                                     None).err = NoError
             IN  (IF ok THEN << p >> ELSE << >>) \o LegalLoopNoKo(self, i + 1)

RECURSIVE LegalLoop(_, _)
LegalLoop(self, i) ==
    LET size == self.board.size
    IN  IF i >= size * size THEN << >>
        ELSE LET p == Point(i \div size, i % size)
                 ok == /\ get(self.board, p) = Empty
                       /\ apply_move(self.board, p, self.next_player,
                                     self.ko_forbidden_signature).err = NoError
             IN  (IF ok THEN << p >> ELSE << >>) \o LegalLoop(self, i + 1)

legal_moves(self) == IF self.is_over THEN << >> ELSE LegalLoop(self, 0)

-----------------------------------------------------------------------------
(* scoring.py *)

\* The colours of the stones next to a point of the region.
bordering(board, region) ==
    { get(board, nb) : nb \in UNION { Range(iter_neighbors(p, board.size))
                                      : p \in region } } \ {Empty}

\* An owner rule that gives BLACK every region a black stone touches.
region_owner_any_black(board, region) ==
    IF BLACK \in bordering(board, region) THEN Some(BLACK)
    ELSE IF bordering(board, region) = {WHITE} THEN Some(WHITE)
    ELSE None

region_owner(board, region) ==
    IF bordering(board, region) = {BLACK} THEN Some(BLACK)
    ELSE IF bordering(board, region) = {WHITE} THEN Some(WHITE)
    ELSE None

\* The inner while loop: the flood fill of one empty region.
RECURSIVE RegionLoop(_, _, _, _)
RegionLoop(board, stack, visited, region) ==
    IF stack = << >>
    THEN [visited |-> visited, region |-> region]
    ELSE LET cur == stack[Len(stack)]
             rest == SubSeq(stack, 1, Len(stack) - 1)
         IN  IF cur \in visited \/ get(board, cur) # Empty
             THEN RegionLoop(board, rest, visited, region)
             ELSE LET visited2 == visited \cup {cur}
                      pushed == SelectSeq(iter_neighbors(cur, board.size),
                                    LAMBDA nb : /\ nb \notin visited2
                                                /\ get(board, nb) = Empty)
                  IN  RegionLoop(board, rest \o pushed, visited2,
                                 region \cup {cur})

TerritoryResult(tb, tw, neutral) ==
    [territory_black |-> tb, territory_white |-> tw, neutral |-> neutral]

\* The outer loops over r and c, from point number i on.
RECURSIVE TerritoryLoop(_, _, _, _)
TerritoryLoop(board, i, visited, acc) ==
    LET size == board.size
        p == Point(i \div size, i % size)
    IN  IF i >= size * size THEN acc
        ELSE IF p \in visited \/ get(board, p) # Empty
        THEN TerritoryLoop(board, i + 1, visited, acc)
        ELSE LET count(f) ==
                     LET owner == region_owner(board, f.region)
                         n == Cardinality(f.region)
                     IN  TerritoryLoop(board, i + 1, f.visited,
                            IF owner = Some(BLACK)
                            THEN TerritoryResult(acc.territory_black + n,
                                                 acc.territory_white,
                                                 acc.neutral)
                            ELSE IF owner = Some(WHITE)
                            THEN TerritoryResult(acc.territory_black,
                                                 acc.territory_white + n,
                                                 acc.neutral)
                            ELSE TerritoryResult(acc.territory_black,
                                                 acc.territory_white,
                                                 acc.neutral + n))
                 fill(v) == RegionLoop(board, << p >>, v, {})
             IN  Let(Let(visited, fill), count)

evaluate_territory(board) ==
    TerritoryLoop(board, 0, {}, TerritoryResult(0, 0, 0))

ScoreBreakdown(captures_black, captures_white, territory_black, territory_white) ==
    [captures_black |-> captures_black,
     captures_white |-> captures_white,
     territory_black |-> territory_black,
     territory_white |-> territory_white]

score_black(self) == self.territory_black + self.captures_black

score_white(self) == self.territory_white + self.captures_white

\* GameState.score (game_state.py).  A score that credits each colour with
\* the other colour's capture total:
score_swapped(self) ==
    LET terr == evaluate_territory(self.board)
    IN  ScoreBreakdown(self.captures_white, self.captures_black,
                       terr.territory_black, terr.territory_white)

score(self) ==
    LET terr == evaluate_territory(self.board)
    IN  ScoreBreakdown(self.captures_black, self.captures_white,
                       terr.territory_black, terr.territory_white)

-----------------------------------------------------------------------------
(* serialization.py *)

\* game_to_dict that leaves the pass records out.
game_to_dict_no_pass(state, board_size) ==
    [board_size |-> board_size,
     history |-> [i \in 1..Len(SelectSeq(state.history,
                                         LAMBDA m : m.point # None)) |->
                     LET m == SelectSeq(state.history,
                                        LAMBDA n : n.point # None)[i]
                     IN  [color |-> m.color, point |-> m.point,
                          captured |-> m.captured]]]

game_to_dict(state, board_size) ==
    [board_size |-> board_size,
     history |-> [i \in 1..Len(state.history) |->
                     [color |-> state.history[i].color,
                      point |-> state.history[i].point,
                      captured |-> state.history[i].captured]]]

\* The replay loop from record i on.  acc holds the state rebuilt so far,
\* the exception raised, if any (it ends the loop), and the board on which
\* the last record of the rebuilt history was made (an inserted pass leaves
\* the board as it was).
RECURSIVE ReplayLoop(_, _, _)
ReplayLoop(acc, hist, i) ==
    IF i > Len(hist) \/ acc.err # NoError THEN acc
    ELSE LET m == hist[i]
             step(a) ==
                 LET s1 == IF a.state.next_player # m.color
                           THEN pass_turn(a.state) ELSE a.state
                 IN  IF m.point = None
                     THEN [err |-> NoError, state |-> pass_turn(s1)]
                     ELSE play(s1, m.point[1])
             note(r) ==
                 [err    |-> r.err,
                  state  |-> r.state,
                  before |-> IF r.state.history # acc.state.history
                             THEN acc.state.board ELSE acc.before]
             rest(r) == ReplayLoop(r, hist, i + 1)
         IN  Let(Let(Let(acc, step), note), rest)

dict_to_game(data) ==
    LET replay(start) ==
            ReplayLoop([err |-> NoError, state |-> start,
                        before |-> start.board], data.history, 1)
    IN  Let(New(data.board_size, BLACK), replay)

-----------------------------------------------------------------------------
(* Session files offered to load_session.  Each history lists               *)
(* <<color, row, col>> plies, row = -1 for a pass.                          *)

Ply(t) == [color |-> t[1],
           point |-> IF t[2] < 0 THEN None ELSE Some(Point(t[2], t[3])),
           captured |-> 0]

Session(size, plies) ==
    [board_size |-> size, history |-> [i \in 1..Len(plies) |-> Ply(plies[i])]]

\* 3x3, white to move: W(0,1) takes the corner stone and starts a ko.
SessionKo ==
    Session(3, << <<BLACK, 0, 0>>, <<WHITE, 1, 0>>, <<BLACK, 0, 2>>,
                  <<WHITE, -1, -1>>, <<BLACK, 1, 1>> >>)

\* 3x3, black to move: the white chain (0,1)-(1,1)-(1,0) has its last
\* liberty at (0,0), which it touches on two sides.
SessionChain ==
    Session(3, << <<BLACK, 0, 2>>, <<WHITE, 0, 1>>, <<BLACK, 1, 2>>,
                  <<WHITE, 1, 1>>, <<BLACK, 2, 1>>, <<WHITE, 1, 0>>,
                  <<BLACK, 2, 0>>, <<WHITE, -1, -1>> >>)

\* tests/test_phase1_rules.py test_simple_capture, 5x5.
SessionCapture5 ==
    Session(5, << <<BLACK, 1, 0>>, <<WHITE, 1, 1>>, <<BLACK, 0, 1>>,
                  <<WHITE, 4, 4>>, <<BLACK, 1, 2>>, <<WHITE, 4, 3>>,
                  <<BLACK, 2, 1>> >>)

\* A file whose replay raises: the second ply is on an occupied point.
SessionBad ==
    Session(2, << <<BLACK, 0, 0>>, <<WHITE, 0, 0>> >>)

\* 2x2, white to move: (0,0) has only black neighbours, each with a liberty.
SessionCorner ==
    Session(2, << <<BLACK, 0, 1>>, <<WHITE, -1, -1>>, <<BLACK, 1, 0>> >>)

\* 3x3, white to move: black stones on the right column and the bottom row
\* enclose the four empty points of the upper left 2x2 block.
SessionEnclosed ==
    Session(3, << <<BLACK, 0, 2>>, <<WHITE, -1, -1>>, <<BLACK, 1, 2>>,
                  <<WHITE, -1, -1>>, <<BLACK, 2, 2>>, <<WHITE, -1, -1>>,
                  <<BLACK, 2, 1>>, <<WHITE, -1, -1>>, <<BLACK, 2, 0>> >>)

Sessions ==
    {SessionKo, SessionChain, SessionCapture5, SessionBad, SessionCorner,
     SessionEnclosed}

-----------------------------------------------------------------------------
(* The caller: holds one GameState and rebinds it to what a call returns.  *)

Sizes == 2..MaxSize

\* Arguments tried for play: every board point, one point with a negative
\* coordinate and one with a coordinate equal to size.
Inputs(size) == Points(size) \cup {Point(-1, 0), Point(0, size)}

OpRec(name, arg, err) == [name |-> name, p |-> arg, err |-> err]

\* No group search is in progress.
SearchIdle == [pc |-> "idle"]

\* No territory evaluation is in progress.
TerritoryIdle == [pc |-> "idle"]

\* No window is open.
AppIdle == [pc |-> "closed"]

Init ==
    \E size \in Sizes, first \in Color :
        /\ gs = New(size, first)
        /\ prev = gs
        /\ op = OpRec("new", None, NoError)
        /\ calls = 0
        /\ before = gs.board
        /\ first_player = first
        /\ srch = SearchIdle
        /\ teval = TerritoryIdle
        /\ app = AppIdle

CanCall == calls < MaxCalls /\ gs.board.size <= MaxSize

Play(p) ==
    /\ CanCall
    /\ LET r == play(gs, p)
       IN  /\ gs' = r.state
           /\ op' = OpRec("play", Some(p), r.err)
           /\ calls' = IF r.err = NoError THEN calls + 1 ELSE calls
    /\ prev' = gs
    /\ before' = IF gs'.history # gs.history THEN gs.board ELSE before
    /\ UNCHANGED <<first_player, srch, teval, app>>

Pass ==
    /\ CanCall
    /\ gs' = pass_turn(gs)
    /\ op' = OpRec("pass", None, NoError)
    /\ calls' = calls + 1
    /\ prev' = gs
    /\ before' = IF gs'.history # gs.history THEN gs.board ELSE before
    /\ UNCHANGED <<first_player, srch, teval, app>>

\* score() is called on the held state; nothing is rebound.
Score ==
    /\ op' = [name |-> "score", p |-> None, err |-> NoError,
              result |-> score(gs)]
    /\ prev' = gs
    /\ UNCHANGED <<gs, calls, before, first_player, srch, teval, app>>

\* load_session for each offered file, evaluated once.
LoadResult == [data \in Sessions |-> dict_to_game(data)]

\* on_load: the replay starts from GameState.new(size); when it raises, the
\* caller's state is not rebound.
Load(data) ==
    /\ LET r == LoadResult[data]
       IN  IF r.err = NoError
           THEN /\ gs' = r.state
                /\ calls' = 0
                /\ before' = r.before
                /\ first_player' = BLACK
                /\ op' = OpRec("load", None, NoError)
           ELSE /\ UNCHANGED <<gs, calls, before, first_player>>
                /\ op' = OpRec("load", None, r.err)
    /\ prev' = New(data.board_size, BLACK)
    /\ UNCHANGED <<srch, teval, app>>

Next ==
    \/ \E p \in Inputs(gs.board.size) : Play(p)
    \/ Pass
    \/ Score
    \/ \E data \in Sessions : Load(data)

Spec == Init /\ [][Next]_vars

TypeOK ==
    /\ calls \in 0..MaxCalls
    /\ gs.next_player \in Color
    /\ gs.consecutive_passes \in 0..2
    /\ op.err \in GoError \cup {NoError}
    /\ \A b \in {gs.board, prev.board, before} :
          /\ b.size \in Sizes \cup { data.board_size : data \in Sessions }
          /\ DOMAIN b.grid = Points(b.size)
          /\ \A q \in Points(b.size) : b.grid[q] \in Color \cup {Empty}
    /\ before.size = gs.board.size
    /\ first_player \in Color

-----------------------------------------------------------------------------
(* _group_and_liberties step by step.  The worklist is kept as the number  *)
(* of entries each point has in it, and a step takes any entry: the result *)
(* is then checked for every order of popping and of pushing neighbours.   *)
(* expanded counts, per point, the runs of the for loop over its           *)
(* neighbours.                                                             *)

SearchSizes == {2, 3}

\* The boards searched: at most MaxStones stones, of both colours.
SearchBoards ==
    UNION { { [grid |-> h, size |-> size] :
                h \in { f \in [Points(size) -> Color \cup {Empty}] :
                          Cardinality({ q \in Points(size) : f[q] # Empty })
                              <= MaxStones } }
            : size \in SearchSizes }

\* Lines 27-32: color, group, liberties and stack = [start].
SearchStart(board, start) ==
    [pc |-> "loop",
     board |-> board,
     start |-> start,
     color |-> get(board, start),
     group |-> {},
     liberties |-> {},
     stack |-> [q \in Points(board.size) |-> IF q = start THEN 1 ELSE 0],
     expanded |-> [q \in Points(board.size) |-> 0]]

InitSearch ==
    /\ \E board \in SearchBoards :
          \E start \in { q \in Points(board.size) : get(board, q) # Empty } :
              srch = SearchStart(board, start)
    /\ gs = New(srch.board.size, BLACK)
    /\ prev = gs
    /\ op = OpRec("new", None, NoError)
    /\ calls = 0
    /\ before = gs.board
    /\ first_player = BLACK
    /\ teval = TerritoryIdle
    /\ app = AppIdle

Pending(p) == srch.pc = "loop" /\ p \in DOMAIN srch.stack /\ srch.stack[p] > 0

\* Lines 35-37: the entry popped is in the group already.
SearchSkip(p) ==
    /\ Pending(p)
    /\ p \in srch.group
    /\ srch' = [pc |-> "loop",
                board |-> srch.board,
                start |-> srch.start,
                color |-> srch.color,
                group |-> srch.group,
                liberties |-> srch.liberties,
                stack |-> [q \in DOMAIN srch.stack |->
                            IF q = p THEN srch.stack[q] - 1 ELSE srch.stack[q]],
                expanded |-> srch.expanded]
    /\ UNCHANGED <<gs, prev, op, calls, before, first_player, teval, app>>

\* An expansion that pushes the neighbours holding a stone of any colour.
SearchExpandAnyStone(p) ==
    /\ Pending(p)
    /\ p \notin srch.group
    /\ LET nbs == Range(iter_neighbors(p, srch.board.size))
           group2 == srch.group \cup {p}
           pushed == { nb \in nbs : /\ get(srch.board, nb) # Empty
                                    /\ nb \notin group2 }
       IN  srch' = [pc |-> "loop",
                    board |-> srch.board,
                    start |-> srch.start,
                    color |-> srch.color,
                    group |-> group2,
                    liberties |-> srch.liberties \cup
                        { nb \in nbs : get(srch.board, nb) = Empty },
                    stack |-> [q \in DOMAIN srch.stack |->
                                srch.stack[q] - (IF q = p THEN 1 ELSE 0)
                                              + (IF q \in pushed THEN 1 ELSE 0)],
                    expanded |-> [q \in DOMAIN srch.expanded |->
                                   srch.expanded[q] + (IF q = p THEN 1 ELSE 0)]]
    /\ UNCHANGED <<gs, prev, op, calls, before, first_player, teval, app>>

\* Lines 35-44: the entry popped joins the group and its neighbours are
\* looked at.
SearchExpand(p) ==
    /\ Pending(p)
    /\ p \notin srch.group
    /\ LET nbs == Range(iter_neighbors(p, srch.board.size))
           group2 == srch.group \cup {p}
           pushed == { nb \in nbs : /\ get(srch.board, nb) = srch.color
                                    /\ nb \notin group2 }
       IN  srch' = [pc |-> "loop",
                    board |-> srch.board,
                    start |-> srch.start,
                    color |-> srch.color,
                    group |-> group2,
                    liberties |-> srch.liberties \cup
                        { nb \in nbs : get(srch.board, nb) = Empty },
                    stack |-> [q \in DOMAIN srch.stack |->
                                srch.stack[q] - (IF q = p THEN 1 ELSE 0)
                                              + (IF q \in pushed THEN 1 ELSE 0)],
                    expanded |-> [q \in DOMAIN srch.expanded |->
                                   srch.expanded[q] + (IF q = p THEN 1 ELSE 0)]]
    /\ UNCHANGED <<gs, prev, op, calls, before, first_player, teval, app>>

\* Lines 34 and 46: the stack is empty and the two sets are returned.
SearchReturn ==
    /\ srch.pc = "loop"
    /\ \A q \in DOMAIN srch.stack : srch.stack[q] = 0
    /\ srch' = [pc |-> "done",
                board |-> srch.board,
                start |-> srch.start,
                color |-> srch.color,
                group |-> srch.group,
                liberties |-> srch.liberties,
                stack |-> srch.stack,
                expanded |-> srch.expanded]
    /\ UNCHANGED <<gs, prev, op, calls, before, first_player, teval, app>>

NextSearch ==
    \/ \E p \in Points(srch.board.size) : SearchSkip(p)
    \/ \E p \in Points(srch.board.size) : SearchExpand(p)
    \/ SearchReturn

\* The interpreter runs the loop on; nothing else is scheduled.
SpecSearch == InitSearch /\ [][NextSearch]_vars /\ WF_vars(NextSearch)

-----------------------------------------------------------------------------
(* evaluate_territory run one grid point at a time.  counted[q] is the     *)
(* number of times q was in a region added to tb, tw or neutral.           *)

\* Lines 61-64: visited is empty and the three counters are 0.
TerritoryStart(board) ==
    [pc |-> "loop",
     board |-> board,
     i |-> 0,
     visited |-> {},
     acc |-> TerritoryResult(0, 0, 0),
     counted |-> [q \in Points(board.size) |-> 0]]

InitTerritory ==
    /\ \E board \in SearchBoards : teval = TerritoryStart(board)
    /\ gs = New(teval.board.size, BLACK)
    /\ prev = gs
    /\ op = OpRec("new", None, NoError)
    /\ calls = 0
    /\ before = gs.board
    /\ first_player = BLACK
    /\ srch = SearchIdle
    /\ app = AppIdle

\* The point the loops over r and c are at.
TerritoryAt ==
    Point(teval.i \div teval.board.size, teval.i % teval.board.size)

InLoop == teval.pc = "loop" /\ teval.i < teval.board.size * teval.board.size

TerritoryAdd(acc, owner, n) ==
    IF owner = Some(BLACK)
    THEN TerritoryResult(acc.territory_black + n, acc.territory_white,
                         acc.neutral)
    ELSE IF owner = Some(WHITE)
    THEN TerritoryResult(acc.territory_black, acc.territory_white + n,
                         acc.neutral)
    ELSE TerritoryResult(acc.territory_black, acc.territory_white,
                         acc.neutral + n)

\* Lines 69-72: the point was visited or holds a stone.
TerritorySkip ==
    /\ InLoop
    /\ TerritoryAt \in teval.visited \/ get(teval.board, TerritoryAt) # Empty
    /\ teval' = [pc |-> "loop",
                 board |-> teval.board,
                 i |-> teval.i + 1,
                 visited |-> teval.visited,
                 acc |-> teval.acc,
                 counted |-> teval.counted]
    /\ UNCHANGED <<gs, prev, op, calls, before, first_player, srch, app>>

\* A fill that starts from an empty visited set each time.
TerritoryFillForgetful ==
    /\ InLoop
    /\ TerritoryAt \notin teval.visited
    /\ get(teval.board, TerritoryAt) = Empty
    /\ LET f == RegionLoop(teval.board, << TerritoryAt >>, {}, {})
       IN  teval' = [pc |-> "loop",
                     board |-> teval.board,
                     i |-> teval.i + 1,
                     visited |-> {TerritoryAt},
                     acc |-> TerritoryAdd(teval.acc,
                                region_owner(teval.board, f.region),
                                Cardinality(f.region)),
                     counted |-> [q \in DOMAIN teval.counted |->
                                    teval.counted[q]
                                    + (IF q \in f.region THEN 1 ELSE 0)]]
    /\ UNCHANGED <<gs, prev, op, calls, before, first_player, srch, app>>

\* Lines 75-96: the region of the point is filled and added to its owner's
\* counter.
TerritoryFill ==
    /\ InLoop
    /\ TerritoryAt \notin teval.visited
    /\ get(teval.board, TerritoryAt) = Empty
    /\ LET f == RegionLoop(teval.board, << TerritoryAt >>, teval.visited, {})
       IN  teval' = [pc |-> "loop",
                     board |-> teval.board,
                     i |-> teval.i + 1,
                     visited |-> f.visited,
                     acc |-> TerritoryAdd(teval.acc,
                                region_owner(teval.board, f.region),
                                Cardinality(f.region)),
                     counted |-> [q \in DOMAIN teval.counted |->
                                    teval.counted[q]
                                    + (IF q \in f.region THEN 1 ELSE 0)]]
    /\ UNCHANGED <<gs, prev, op, calls, before, first_player, srch, app>>

\* Line 98: both loops are over and the counters are returned.
TerritoryReturn ==
    /\ teval.pc = "loop"
    /\ teval.i >= teval.board.size * teval.board.size
    /\ teval' = [pc |-> "done",
                 board |-> teval.board,
                 i |-> teval.i,
                 visited |-> teval.visited,
                 acc |-> teval.acc,
                 counted |-> teval.counted]
    /\ UNCHANGED <<gs, prev, op, calls, before, first_player, srch, app>>

NextTerritory ==
    \/ TerritorySkip
    \/ TerritoryFill
    \/ TerritoryReturn

SpecTerritory == InitTerritory /\ [][NextTerritory]_vars

-----------------------------------------------------------------------------
(* gui/app.py: the GoApp window.  Each handler runs to its end before the  *)
(* next one starts (one Tk event loop).  A handler is taken to be callable *)
(* whatever update_controls last did to its button, so the handler's own   *)
(* conditions are what stops it.  timers counts the do_ai_turn callbacks   *)
(* root.after has scheduled and that have not run; scheduled_for is the    *)
(* state held when the last one was scheduled; events counts the handler   *)
(* runs that went past their early returns, redos apart.  Drawing and the  *)
(* autosave file, which is written and never read back by a handler, are   *)
(* left out.                                                               *)

MaxEvents == 3

\* The sizes of the size menu and of run_gui, scaled down.
GuiSizes == {2, 3}

GoApp(state, size, ai_enabled, ai_color, ai_busy, undo_stack, redo_stack, timers, scheduled_for, events) ==
    [state |-> state,
     size |-> size,
     ai_enabled |-> ai_enabled,
     ai_color |-> ai_color,
     ai_busy |-> ai_busy,
     undo_stack |-> undo_stack,
     redo_stack |-> redo_stack,
     timers |-> timers,
     scheduled_for |-> scheduled_for,
     events |-> events]

\* The window after a handler run that set state and the two stacks.
Session3(a, state, undo_stack, redo_stack) ==
    GoApp(state, a.size, a.ai_enabled, a.ai_color, a.ai_busy, undo_stack,
          redo_stack, a.timers, a.scheduled_for, a.events + 1)

\* The same after on_redo, which retraces an on_undo already counted.
Redone(a, state, undo_stack, redo_stack) ==
    GoApp(state, a.size, a.ai_enabled, a.ai_color, a.ai_busy, undo_stack,
          redo_stack, a.timers, a.scheduled_for, a.events)

\* A new game of the given size with both stacks cleared.
Fresh(a, size) ==
    GoApp(New(size, BLACK), size, a.ai_enabled, a.ai_color, a.ai_busy,
          << >>, << >>, a.timers, a.scheduled_for, a.events + 1)

maybe_ai_turn(a) ==
    IF \/ a.state.is_over
       \/ ~a.ai_enabled
       \/ a.state.next_player # a.ai_color
       \/ a.ai_busy
    THEN a
    ELSE GoApp(a.state, a.size, a.ai_enabled, a.ai_color, TRUE,
               a.undo_stack, a.redo_stack, a.timers + 1, Some(a.state),
               a.events)

\* __init__: a new game, the AI on and playing WHITE, then maybe_ai_turn.
InitGui ==
    /\ \E size \in GuiSizes :
          app = maybe_ai_turn(GoApp(New(size, BLACK), size, TRUE, WHITE,
                                    FALSE, << >>, << >>, 0, None, 0))
    /\ gs = New(app.size, BLACK)
    /\ prev = gs
    /\ op = OpRec("__init__", None, NoError)
    /\ calls = 0
    /\ before = gs.board
    /\ first_player = BLACK
    /\ srch = SearchIdle
    /\ teval = TerritoryIdle

Engine == <<gs, prev, calls, before, first_player, srch, teval>>

\* Handler runs that add an event stop at MaxEvents; early returns,
\* rejected clicks and redos do not count and are always possible.
CanHandle == app.events < MaxEvents

\* A handler that returned early: nothing but the record of the call changes.
Returned(name, arg) ==
    /\ op' = OpRec(name, arg, NoError)
    /\ UNCHANGED app

AiToMove(a) == a.ai_enabled /\ a.state.next_player = a.ai_color

Top(stack) == stack[Len(stack)]
Pop(stack) == SubSeq(stack, 1, Len(stack) - 1)

\* arg is what xy_to_point returned: None away from every intersection.
on_click(arg) ==
    /\ IF app.state.is_over \/ app.ai_busy \/ AiToMove(app) \/ arg = None
       THEN Returned("on_click", arg)
       ELSE LET r == play(app.state, arg[1])
                \* push_undo
                pushed == Append(app.undo_stack, app.state)
                \* except GoError: the snapshot is popped again
                popped == IF Len(pushed) > 0 /\ Top(pushed) = app.state
                          THEN Pop(pushed) ELSE pushed
            IN  /\ r.err = NoError => CanHandle
                /\ op' = OpRec("on_click", arg, r.err)
                /\ app' = IF r.err # NoError
                          THEN GoApp(app.state, app.size, app.ai_enabled,
                                     app.ai_color, app.ai_busy, popped,
                                     << >>, app.timers, app.scheduled_for,
                                     app.events)
                          ELSE maybe_ai_turn(
                                   Session3(app, r.state, pushed, << >>))
    /\ UNCHANGED Engine

on_pass ==
    /\ IF app.state.is_over \/ app.ai_busy \/ AiToMove(app)
       THEN Returned("on_pass", None)
       ELSE /\ CanHandle
            /\ op' = OpRec("on_pass", None, NoError)
            /\ app' = maybe_ai_turn(
                          Session3(app, pass_turn(app.state),
                                   Append(app.undo_stack, app.state), << >>))
    /\ UNCHANGED Engine

\* An on_undo without the ai_busy condition.
on_undo_while_busy ==
    /\ IF app.undo_stack = << >>
       THEN Returned("on_undo", None)
       ELSE /\ CanHandle
            /\ op' = OpRec("on_undo", None, NoError)
            /\ app' = Session3(app, Top(app.undo_stack), Pop(app.undo_stack),
                               Append(app.redo_stack, app.state))
    /\ UNCHANGED Engine

on_undo ==
    /\ IF app.ai_busy \/ app.undo_stack = << >>
       THEN Returned("on_undo", None)
       ELSE /\ CanHandle
            /\ op' = OpRec("on_undo", None, NoError)
            /\ app' = Session3(app, Top(app.undo_stack), Pop(app.undo_stack),
                               Append(app.redo_stack, app.state))
    /\ UNCHANGED Engine

on_redo ==
    /\ IF app.ai_busy \/ app.redo_stack = << >>
       THEN Returned("on_redo", None)
       ELSE /\ op' = OpRec("on_redo", None, NoError)
            /\ app' = maybe_ai_turn(
                          Redone(app, Top(app.redo_stack),
                                 Append(app.undo_stack, app.state),
                                 Pop(app.redo_stack)))
    /\ UNCHANGED Engine

\* toggle_ai has no early return.
toggle_ai ==
    /\ CanHandle
    /\ op' = OpRec("toggle_ai", None, NoError)
    /\ app' = maybe_ai_turn(
                  GoApp(app.state, app.size, ~app.ai_enabled, app.ai_color,
                        app.ai_busy, app.undo_stack, app.redo_stack,
                        app.timers, app.scheduled_for, app.events + 1))
    /\ UNCHANGED Engine

\* new_size is the value of size_var, one of the menu's sizes.
apply_board_size(new_size) ==
    /\ IF app.ai_busy \/ new_size = app.size
       THEN Returned("apply_board_size", None)
       ELSE /\ CanHandle
            /\ op' = OpRec("apply_board_size", None, NoError)
            /\ app' = maybe_ai_turn(Fresh(app, new_size))
    /\ UNCHANGED Engine

on_new_game(new_size) ==
    /\ IF app.ai_busy
       THEN Returned("on_new_game", None)
       ELSE /\ CanHandle
            /\ op' = OpRec("on_new_game", None, NoError)
            /\ app' = maybe_ai_turn(Fresh(app, new_size))
    /\ UNCHANGED Engine

\* The session files the file dialog offers, with the AI settings they hold.
GuiFile(data, ai_enabled, ai_color) ==
    [data |-> data, ai_enabled |-> ai_enabled, ai_color |-> ai_color]

GuiFiles ==
    {GuiFile(SessionCorner, FALSE, WHITE), GuiFile(SessionCorner, TRUE, WHITE),
     GuiFile(SessionBad, TRUE, WHITE), GuiFile(SessionKo, TRUE, BLACK)}

\* file is None when the dialog was cancelled.  When load_session raises,
\* the exception leaves the handler before any field is assigned.
on_load(file) ==
    /\ IF app.ai_busy \/ file = None
       THEN Returned("on_load", None)
       ELSE LET r == LoadResult[file[1].data]
            IN  /\ r.err = NoError => CanHandle
                /\ op' = OpRec("on_load", None, r.err)
                /\ app' = IF r.err # NoError THEN app
                          ELSE maybe_ai_turn(
                                   GoApp(r.state, file[1].data.board_size,
                                         file[1].ai_enabled,
                                         file[1].ai_color, app.ai_busy,
                                         << >>, << >>, app.timers,
                                         app.scheduled_for, app.events + 1))
    /\ UNCHANGED Engine

\* What RandomAI.pick_move may return: any legal move, None when there is
\* none.
pick_move(state) ==
    IF legal_moves(state) = << >> THEN {None}
    ELSE { Some(q) : q \in Range(legal_moves(state)) }

\* The callback root.after scheduled.  The finally block clears ai_busy and
\* calls maybe_ai_turn on every path.
do_ai_turn ==
    /\ app.timers > 0
    /\ CanHandle
    /\ LET fired == GoApp(app.state, app.size, app.ai_enabled, app.ai_color,
                          FALSE, app.undo_stack, app.redo_stack,
                          app.timers - 1, None, app.events + 1)
       IN  IF app.state.is_over \/ ~AiToMove(app)
           THEN /\ op' = OpRec("do_ai_turn", None, NoError)
                /\ app' = maybe_ai_turn(fired)
           ELSE \E move \in pick_move(app.state) :
                   LET pushed == Append(app.undo_stack, app.state)
                       r == IF move = None
                            THEN [err |-> NoError,
                                  state |-> pass_turn(app.state)]
                            ELSE play(app.state, move[1])
                   IN  /\ op' = OpRec("do_ai_turn", move, r.err)
                       /\ app' = maybe_ai_turn(
                               GoApp(IF r.err = NoError THEN r.state
                                     ELSE app.state,
                                     app.size, app.ai_enabled, app.ai_color,
                                     FALSE, pushed, << >>, app.timers - 1,
                                     None, app.events + 1))
    /\ UNCHANGED Engine

NextGui ==
    \/ \E arg \in { Some(q) : q \in Points(app.size) } \cup {None} :
          on_click(arg)
    \/ on_pass
    \/ on_undo
    \/ on_redo
    \/ toggle_ai
    \/ \E new_size \in GuiSizes : apply_board_size(new_size)
    \/ \E new_size \in GuiSizes : on_new_game(new_size)
    \/ \E file \in { Some(f) : f \in GuiFiles } \cup {None} : on_load(file)
    \/ do_ai_turn

SpecGui == InitGui /\ [][NextGui]_vars

-----------------------------------------------------------------------------
(* Rules of Go stated on grids, independently of the engine's search.      *)

Adjacent(p, q) ==
    \/ p[1] = q[1] /\ (p[2] = q[2] + 1 \/ q[2] = p[2] + 1)
    \/ p[2] = q[2] /\ (p[1] = q[1] + 1 \/ q[1] = p[1] + 1)

RECURSIVE Closure(_, _, _)
Closure(grid, colour, S) ==
    LET T == S \cup { x \in DOMAIN grid :
                        grid[x] = colour /\ \E y \in S : Adjacent(x, y) }
    IN  IF T = S THEN S ELSE Closure(grid, colour, T)

\* The maximal 4-connected chain of q's colour containing q.
ChainOf(grid, q) == Closure(grid, grid[q], {q})

\* The empty points adjacent to some member of S.
LibertiesOf(grid, S) ==
    { x \in DOMAIN grid : grid[x] = Empty /\ \E y \in S : Adjacent(x, y) }

\* Opponent chains adjacent to p left without a liberty once c stands at p.
DeadChains(grid, p, c) ==
    LET g1 == [x \in DOMAIN grid |-> IF x = p THEN c ELSE grid[x]]
    IN  UNION { IF LibertiesOf(g1, ChainOf(g1, q)) = {} THEN ChainOf(g1, q) ELSE {}
              : q \in { x \in DOMAIN grid :
                          Adjacent(x, p) /\ grid[x] = opponent(c) } }

\* The grid after c is placed on the empty point p and captures are removed.
Resulting(grid, p, c) ==
    LET dead == DeadChains(grid, p, c)
    IN  [x \in DOMAIN grid |->
            IF x = p THEN c ELSE IF x \in dead THEN Empty ELSE grid[x]]

Playable(grid, p) == p \in DOMAIN grid /\ grid[p] = Empty

\* Stones present in grid g and absent from grid h.
Removed(g, h) == { x \in DOMAIN g : g[x] # Empty /\ h[x] = Empty }

Neighbours(grid, p) == { x \in DOMAIN grid : Adjacent(x, p) }

\* The last operation was play on a non-terminal state.
PlayedOn == op.name = "play" /\ ~prev.is_over
PlayedOk == PlayedOn /\ op.err = NoError
Arg == op.p[1]
Mover == prev.next_player
Was == prev.board.grid
Now == gs.board.grid

\* The last record of the history is a play that took exactly one stone.
LastCapturedOne ==
    /\ Len(gs.history) > 0
    /\ gs.history[Len(gs.history)].point # None
    /\ Cardinality(Removed(before.grid, Now)) = 1

\* The number of pass records at the end of a history.
RECURSIVE TrailingPasses(_)
TrailingPasses(h) ==
    IF Len(h) = 0 \/ h[Len(h)].point # None THEN 0
    ELSE 1 + TrailingPasses(SubSeq(h, 1, Len(h) - 1))

\* A history as its sequence of <<colour, point>> plies.
Plies(h) == [i \in 1..Len(h) |-> << h[i].color, h[i].point >>]

-----------------------------------------------------------------------------
(* C1: a successful play at p by colour c removes exactly the opponent     *)
(* chains adjacent to p that have no liberty once c stands at p; p holds   *)
(* c and every other stone stays where it was.                             *)
C1_CaptureExact ==
    PlayedOk =>
        LET dead == DeadChains(Was, Arg, Mover)
        IN  /\ Removed(Was, Now) = dead
            /\ Now[Arg] = Mover
            /\ \A x \in DOMAIN Was : x \notin dead \cup {Arg} => Now[x] = Was[x]

\* A capture next to an opponent chain that keeps a liberty and survives.
C1_Witness ==
    /\ PlayedOk
    /\ Removed(Was, Now) # {}
    /\ \E x \in Neighbours(Was, Arg) :
          Was[x] = opponent(Mover) /\ Now[x] = opponent(Mover)

(* C2: on a non-terminal state play(p) fails with SuicideMove exactly when *)
(* p is in bounds and empty and the chain of p has no liberty on the board *)
(* obtained by placing the stone and removing the captured chains.         *)
C2_SuicideIff ==
    PlayedOn =>
        ( op.err = SuicideMove
          <=> /\ Playable(Was, Arg)
              /\ LET g2 == Resulting(Was, Arg, Mover)
                 IN  LibertiesOf(g2, ChainOf(g2, Arg)) = {} )

\* A lone stone on a point whose neighbours are all enemy stones, capturing
\* nothing, was rejected.
C2_Witness ==
    /\ PlayedOn
    /\ op.err = SuicideMove
    /\ \A x \in Neighbours(Was, Arg) : Was[x] = opponent(Mover)
    /\ DeadChains(Was, Arg, Mover) = {}

(* C3: after a play that captured exactly one stone, a play whose          *)
(* resulting board equals the board that existed before the capturing     *)
(* play fails with KoViolation.                                            *)
C3_KoRejected ==
    [][ ( /\ LastCapturedOne
          /\ op'.name = "play"
          /\ Playable(Now, op'.p[1])
          /\ Resulting(Now, op'.p[1], gs.next_player) = before.grid )
        => op'.err = KoViolation ]_vars

\* The recapture was attempted and rejected.
C3_Witness ==
    /\ op.name = "play"
    /\ op.err = KoViolation
    /\ LastCapturedOne
    /\ Resulting(Now, Arg, gs.next_player) = before.grid

(* C4: on a non-terminal state legal_moves() lists exactly the in-bounds   *)
(* points whose play succeeds; an empty point that is not listed is        *)
(* rejected with SuicideMove or KoViolation.                               *)
C4_LegalMovesExact ==
    PlayedOn =>
        LET legal == Range(legal_moves(prev))
        IN  /\ legal \subseteq DOMAIN Was
            /\ op.err = NoError <=> Arg \in legal
            /\ (Playable(Was, Arg) /\ Arg \notin legal)
                  => op.err \in {SuicideMove, KoViolation}

\* An empty point left out of a non-empty list because of the ko memory.
C4_Witness ==
    /\ PlayedOn
    /\ op.err = KoViolation
    /\ Playable(Was, Arg)
    /\ legal_moves(prev) # << >>
    /\ Arg \notin Range(legal_moves(prev))

(* C5: the terminal state is absorbing: play (any point) and pass_turn on  *)
(* a state with is_over raise nothing and return a state equal in every    *)
(* field.                                                                  *)
C5_TerminalAbsorbing ==
    (op.name \in {"play", "pass"} /\ prev.is_over)
        => (op.err = NoError /\ gs = prev)

\* play on a terminal state with an out-of-bounds point.
C5_Witness ==
    /\ op.name = "play"
    /\ prev.is_over
    /\ Arg \notin DOMAIN Was

(* C6: is_over holds exactly when the last two history records are both    *)
(* passes, and consecutive_passes is the number of trailing pass records   *)
(* (0, 1 or 2); a play between two passes resets the count.                *)
C6_TwoPassesEnd ==
    LET h == gs.history
        n == Len(h)
    IN  /\ gs.is_over <=> (n >= 2 /\ h[n].point = None /\ h[n - 1].point = None)
        /\ gs.consecutive_passes = TrailingPasses(h)
        /\ TrailingPasses(h) \in 0..2

\* pass, play, pass: the game is still in progress.
C6_Witness ==
    LET h == gs.history
        n == Len(h)
    IN  /\ n >= 3
        /\ h[n].point = None /\ h[n - 1].point # None /\ h[n - 2].point = None
        /\ ~gs.is_over
        /\ gs.consecutive_passes = 1

(* C7: a play that fails with a GoError leaves the state unchanged in      *)
(* every field, and the next play or pass gives the result it would have   *)
(* given on the state the failed call was made on.                         *)
C7_FailedPlayKeepsState ==
    [][ /\ (op'.name = "play" /\ op'.err \in GoError) => gs' = gs
        /\ (op.name = "play" /\ op.err \in GoError) =>
              /\ op'.name = "play" =>
                    /\ gs' = play(prev, op'.p[1]).state
                    /\ op'.err = play(prev, op'.p[1]).err
              /\ op'.name = "pass" => gs' = pass_turn(prev) ]_vars

\* A rejected play on a state that carries a ko memory.
C7_Witness ==
    /\ op.name = "play"
    /\ op.err \in GoError
    /\ gs.ko_forbidden_signature # None
    /\ gs = prev

(* C8: a successful play adds to the mover's capture total exactly the     *)
(* number of distinct stones it removed and leaves the opponent's total    *)
(* unchanged; the 5x5 game B(1,0) W(1,1) B(0,1) W(4,4) B(1,2) W(4,3)       *)
(* B(2,1) ends with captures_black = 1, captures_white = 0, (1,1) empty.   *)
C8_CaptureCount ==
    /\ PlayedOk =>
          LET n == Cardinality(Removed(Was, Now))
          IN  IF Mover = BLACK
              THEN /\ gs.captures_black = prev.captures_black + n
                   /\ gs.captures_white = prev.captures_white
              ELSE /\ gs.captures_white = prev.captures_white + n
                   /\ gs.captures_black = prev.captures_black
    /\ (gs.board.size = 5 /\ Plies(gs.history) = Plies(SessionCapture5.history))
          => /\ gs.captures_black = 1
             /\ gs.captures_white = 0
             /\ Now[Point(1, 1)] = Empty

\* A captured chain that touched the played point on two sides.
C8_Witness ==
    /\ PlayedOk
    /\ \E x, y \in Neighbours(Was, Arg) :
          /\ x # y
          /\ {x, y} \subseteq Removed(Was, Now)
          /\ y \in ChainOf(Was, x)

(* C9: a play that captures at least one stone is never rejected with      *)
(* SuicideMove.                                                            *)
C9_CaptureNotSuicide ==
    (PlayedOn /\ Playable(Was, Arg) /\ DeadChains(Was, Arg, Mover) # {})
        => op.err # SuicideMove

\* A capturing play on a point all of whose neighbours were enemy stones.
C9_Witness ==
    /\ PlayedOk
    /\ DeadChains(Was, Arg, Mover) # {}
    /\ \A x \in Neighbours(Was, Arg) : Was[x] = opponent(Mover)

(* C10: the ko memory is the board before the last ply when that ply was a *)
(* play that captured exactly one stone, and is absent otherwise (after a  *)
(* play capturing zero or several stones, after a pass, initially).        *)
C10_KoMemory ==
    LET h == gs.history
        n == Len(h)
    IN  IF n = 0 \/ h[n].point = None
        THEN gs.ko_forbidden_signature = None
        ELSE gs.ko_forbidden_signature =
                IF Cardinality(Removed(before.grid, Now)) = 1
                THEN Some(before.grid) ELSE None

\* The last ply captured exactly one stone and the memory holds the board
\* it was played on.
C10_Witness ==
    /\ LastCapturedOne
    /\ op.name = "play"
    /\ op.err = NoError
    /\ gs.ko_forbidden_signature = Some(Was)

-----------------------------------------------------------------------------
\* The held state saved and loaded again.
RoundTrip == dict_to_game(game_to_dict(gs, gs.board.size))

(* C11: for a game started by new(size), with BLACK to move first, saving  *)
(* the state and replaying the saved history completes without raising and *)
(* gives the same board contents, the same capture totals and the same     *)
(* is_over flag.                                                           *)
C11_RoundTrip ==
    first_player = BLACK =>
        /\ RoundTrip.err = NoError
        /\ RoundTrip.state.board = gs.board
        /\ RoundTrip.state.captures_black = gs.captures_black
        /\ RoundTrip.state.captures_white = gs.captures_white
        /\ RoundTrip.state.is_over = gs.is_over

\* A game with a capture in its history, a pass as its last record.
C11_Witness ==
    /\ first_player = BLACK
    /\ op.name = "pass"
    /\ gs.consecutive_passes = 1
    /\ gs.captures_black + gs.captures_white > 0
    /\ RoundTrip.state.history = gs.history

-----------------------------------------------------------------------------
\* S grown by the points of the given colour reachable from its newest
\* points F through adjacent points of that colour.
RECURSIVE Grow(_, _, _, _)
Grow(grid, colour, S, F) ==
    LET N == { x \in DOMAIN grid \ S :
                 grid[x] = colour /\ \E y \in F : Adjacent(x, y) }
    IN  IF N = {} THEN S ELSE Grow(grid, colour, S \cup N, N)

\* The maximal 4-connected region of empty points containing the empty q.
RegionOf(grid, q) == Grow(grid, Empty, {q}, {q})

\* The colours of the stones adjacent to some point of S.
BorderColours(grid, S) ==
    { grid[x] : x \in { z \in DOMAIN grid :
                          grid[z] # Empty /\ \E y \in S : Adjacent(z, y) } }

\* The maximal regions of empty points among the points of todo.
RECURSIVE RegionsOf(_, _)
RegionsOf(grid, todo) ==
    IF todo = {} THEN {}
    ELSE LET R == RegionOf(grid, CHOOSE q \in todo : TRUE)
         IN  {R} \cup RegionsOf(grid, todo \ R)

\* The numbers of empty points in regions bordered by black stones only,
\* by white stones only, and by no stone or by both colours.
Territory(grid) ==
    LET regions == RegionsOf(grid, { q \in DOMAIN grid : grid[q] = Empty })
        bordered(B) == UNION { R \in regions : BorderColours(grid, R) \in B }
    IN  [black |-> Cardinality(bordered({{BLACK}})),
         white |-> Cardinality(bordered({{WHITE}})),
         neutral |-> Cardinality(bordered({{}, Color}))]

EnclosedGrid ==
    [q \in Points(3) |-> IF q[1] = 2 \/ q[2] = 2 THEN BLACK ELSE Empty]

(* C12: evaluate_territory credits every empty region in full to BLACK     *)
(* exactly when the stones adjacent to it are all black (and there is      *)
(* one), to WHITE exactly when they are all white, and counts it neutral   *)
(* when no stone or stones of both colours are adjacent; the 2x2 empty     *)
(* block enclosed by black stones gives territory_black = 4,               *)
(* territory_white = 0.                                                    *)
C12_TerritoryOwner ==
    LET t == evaluate_territory(gs.board)
        terr == Territory(Now)
    IN  /\ t.territory_black = terr.black
        /\ t.territory_white = terr.white
        /\ t.neutral = terr.neutral
        /\ t.territory_black + t.territory_white + t.neutral
              = Cardinality({ q \in DOMAIN Now : Now[q] = Empty })
        /\ Now = EnclosedGrid => t.territory_black = 4 /\ t.territory_white = 0

\* The enclosed 2x2 block is on the board.
C12_Witness ==
    /\ Now = EnclosedGrid
    /\ evaluate_territory(gs.board) = TerritoryResult(4, 0, 0)

-----------------------------------------------------------------------------
\* The ko memories a call may be made with on the board played on.
KoMemories == {None, prev.ko_forbidden_signature, Some(Was), Some(Now)}

(* C13: on a non-terminal state play(p) fails with OutOfBounds exactly     *)
(* when a coordinate of p lies outside 0..size-1, and with OccupiedPoint   *)
(* exactly when p is on the board and holds a stone; the move rules give   *)
(* the same answer whatever the ko memory is, also where the stone placed  *)
(* would capture or have no liberty.                                       *)
C13_BoundsAndOccupancy ==
    PlayedOn =>
        /\ op.err = OutOfBounds <=> Arg \notin DOMAIN Was
        /\ op.err = OccupiedPoint <=> (Arg \in DOMAIN Was /\ Was[Arg] # Empty)
        /\ \A ko \in KoMemories :
              LET e == apply_move(prev.board, Arg, Mover, ko).err
              IN  /\ e = OutOfBounds <=> op.err = OutOfBounds
                  /\ e = OccupiedPoint <=> op.err = OccupiedPoint

\* A play on a stone was rejected while a ko memory was set.
C13_Witness ==
    /\ PlayedOn
    /\ op.err = OccupiedPoint
    /\ Was[Arg] # Empty
    /\ prev.ko_forbidden_signature # None
    /\ gs = prev

\* A play with a negative row was rejected.
C13_WitnessOutside ==
    /\ PlayedOn
    /\ op.err = OutOfBounds
    /\ Arg[1] < 0

-----------------------------------------------------------------------------
(* C14: score() reports score_black = territory_black + captures_black and *)
(* score_white = territory_white + captures_white, the territories being   *)
(* those of the current board and the captures the running totals of the   *)
(* state, with nothing else added; the call leaves the state as it was.    *)
C14_ScoreSum ==
    op.name = "score" =>
        LET terr == Territory(Now)
        IN  /\ op.result = score(gs)
            /\ score_black(op.result) = terr.black + gs.captures_black
            /\ score_white(op.result) = terr.white + gs.captures_white
            /\ op.result.captures_black = gs.captures_black
            /\ op.result.captures_white = gs.captures_white
            /\ gs = prev

\* score() was called on a state with black territory and black captures;
\* the two capture totals differ.
C14_Witness ==
    /\ op.name = "score"
    /\ gs.captures_black > gs.captures_white
    /\ op.result.territory_black > 0
    /\ score_black(op.result) = op.result.territory_black + gs.captures_black
    /\ gs = prev

-----------------------------------------------------------------------------
(* C15: a successful play(p) on a non-terminal state yields a state whose  *)
(* next_player is the mover's opponent, consecutive_passes is 0, is_over   *)
(* is false, last_move is p and whose board holds the mover's colour at p; *)
(* the history is the previous one with the single record (mover, p,       *)
(* number captured) appended.                                              *)
C15_PlayEffect ==
    PlayedOk =>
        /\ gs.next_player = opponent(Mover)
        /\ gs.consecutive_passes = 0
        /\ ~gs.is_over
        /\ gs.last_move = Some(Arg)
        /\ Now[Arg] = Mover
        /\ Len(gs.history) = Len(prev.history) + 1
        /\ SubSeq(gs.history, 1, Len(prev.history)) = prev.history
        /\ gs.history[Len(gs.history)].color = Mover
        /\ gs.history[Len(gs.history)].point = Some(Arg)
        /\ gs.history[Len(gs.history)].captured = Cardinality(Removed(Was, Now))

\* A capturing play made right after a pass, on a state with a last_move
\* of None and a history.
C15_Witness ==
    /\ PlayedOk
    /\ prev.consecutive_passes = 1
    /\ prev.last_move = None
    /\ Len(prev.history) > 0
    /\ gs.history[Len(gs.history)].captured > 0
    /\ gs.last_move = Some(Arg)

\* The last operation was pass_turn on a non-terminal state.
PassedOn == op.name = "pass" /\ ~prev.is_over

(* C16: pass_turn() on a non-terminal state leaves the board and both      *)
(* capture totals unchanged, clears the ko memory and last_move, appends   *)
(* the single record (mover, no point, 0) to the history and gives the     *)
(* turn to the opponent.                                                   *)
C16_PassEffect ==
    PassedOn =>
        /\ gs.board = prev.board
        /\ gs.captures_black = prev.captures_black
        /\ gs.captures_white = prev.captures_white
        /\ gs.ko_forbidden_signature = None
        /\ gs.last_move = None
        /\ gs.history = Append(prev.history, MoveRecord(Mover, None, 0))
        /\ gs.next_player = opponent(Mover)

\* A pass on a state that carried a ko memory, a last_move and a capture.
C16_Witness ==
    /\ PassedOn
    /\ prev.ko_forbidden_signature # None
    /\ prev.last_move # None
    /\ prev.captures_black + prev.captures_white > 0
    /\ gs.ko_forbidden_signature = None
    /\ gs.board = prev.board

-----------------------------------------------------------------------------
\* What the search that has returned must have found.
SearchCorrect ==
    srch.pc = "done" =>
        /\ srch.group = ChainOf(srch.board.grid, srch.start)
        /\ srch.liberties = LibertiesOf(srch.board.grid, srch.group)
        /\ group_and_liberties(srch.board, srch.start)
              = [group |-> srch.group, liberties |-> srch.liberties]

ExpandedOnce ==
    srch.pc # "idle" => \A q \in DOMAIN srch.expanded : srch.expanded[q] <= 1

(* C17: for every board and every start holding a stone the group search   *)
(* returns, whatever worklist entry each step takes and whatever the order *)
(* of the neighbours; it returns exactly the maximal chain of start's      *)
(* colour containing start and exactly the empty points adjacent to a      *)
(* member of it, and no point has its neighbours looked at twice.          *)
C17_SearchAnyOrder ==
    /\ [](SearchCorrect /\ ExpandedOnce)
    /\ <>(srch.pc = "done")

\* A search returned on a 2x2 block of stones with liberties: the block is
\* a cycle, so its last point was pushed from both sides.
C17_Witness ==
    /\ srch.pc = "done"
    /\ Cardinality(srch.group) = 4
    /\ srch.liberties # {}
    /\ \A q \in srch.group :
          Cardinality({ x \in srch.group : Adjacent(x, q) }) = 2

-----------------------------------------------------------------------------
(* C18: for a game started by new(size, next_player) with either colour to *)
(* move first, saving the state and replaying the saved history gives a    *)
(* history equal record for record to the saved one, with no pass record   *)
(* added, and the same consecutive_passes, is_over and next_player.        *)
C18_ReplayFaithful ==
    /\ RoundTrip.err = NoError
    /\ RoundTrip.state.history = gs.history
    /\ RoundTrip.state.consecutive_passes = gs.consecutive_passes
    /\ RoundTrip.state.is_over = gs.is_over
    /\ RoundTrip.state.next_player = gs.next_player

\* The same for the games started with WHITE that have a record: the replay
\* begins with BLACK to move and puts a black pass before the first record.
C18_WhiteFirstDiverges ==
    (first_player = WHITE /\ gs.history # << >>) =>
        /\ Len(RoundTrip.state.history) <= Len(gs.history) + 1
        /\ RoundTrip.state.history # gs.history
        /\ RoundTrip.state.history[1] = MoveRecord(BLACK, None, 0)

-----------------------------------------------------------------------------
(* C19: turns alternate: the colours of consecutive history records        *)
(* differ, the first record has the colour given to new as first player,   *)
(* and next_player is the opponent of the last record's colour, or the     *)
(* first player while the history is empty.                                *)
C19_TurnsAlternate ==
    LET h == gs.history
    IN  /\ \A i \in 1..(Len(h) - 1) : h[i + 1].color = opponent(h[i].color)
        /\ Len(h) > 0 => h[1].color = first_player
        /\ gs.next_player = IF Len(h) = 0 THEN first_player
                            ELSE opponent(h[Len(h)].color)

\* A game started by WHITE: white played, black passed, white is to move.
C19_Witness ==
    /\ first_player = WHITE
    /\ Len(gs.history) = 2
    /\ gs.history[1].point # None
    /\ gs.history[2].point = None
    /\ gs.next_player = WHITE

-----------------------------------------------------------------------------
(* C20: in every reachable state every chain of stones on the board has at *)
(* least one liberty.                                                      *)
C20_EveryChainBreathes ==
    \A q \in DOMAIN Now :
        Now[q] # Empty => LibertiesOf(Now, ChainOf(Now, q)) # {}

\* After a capturing play, chains of both colours stand on the board and
\* one of them is down to its last liberty.
C20_Witness ==
    /\ PlayedOk
    /\ Removed(Was, Now) # {}
    /\ \E q \in DOMAIN Now : Now[q] = BLACK
    /\ \E q \in DOMAIN Now : Now[q] = WHITE
    /\ \E q \in DOMAIN Now :
          /\ Now[q] # Empty
          /\ Cardinality(LibertiesOf(Now, ChainOf(Now, q))) = 1

-----------------------------------------------------------------------------
(* C21: a successful play that directly follows a successful play (no pass *)
(* between them) never leaves the board as it stood before the first of    *)
(* the two plays, whatever either play captured.                           *)
AfterPlay(self) ==
    /\ Len(self.history) > 0
    /\ self.history[Len(self.history)].point # None

C21_NoImmediateRepetition ==
    [][(/\ op'.name = "play"
        /\ op'.err = NoError
        /\ AfterPlay(gs))
       => gs'.board.grid # before.grid]_vars

\* The second of two consecutive plays succeeded right after a play that
\* captured a single stone, the case in which a recapture would repeat.
C21_Witness ==
    /\ PlayedOk
    /\ AfterPlay(prev)
    /\ prev.history[Len(prev.history)].captured = 1
    /\ Cardinality({ q \in DOMAIN Now : Now[q] # Was[q] }) = 1

-----------------------------------------------------------------------------
(* C22: stone conservation.  In every reachable state the black stones on  *)
(* the board number the non-pass BLACK records of the history minus        *)
(* captures_white, the white stones number the non-pass WHITE records      *)
(* minus captures_black, and each capture total is the sum of the captured *)
(* fields of that colour's records.                                        *)
StonesOf(g, c) == Cardinality({ q \in DOMAIN g : g[q] = c })

PlaysOf(h, c) ==
    Cardinality({ i \in 1..Len(h) : h[i].color = c /\ h[i].point # None })

RECURSIVE CapturedBy(_, _, _)
CapturedBy(h, c, i) ==
    IF i = 0 THEN 0
    ELSE CapturedBy(h, c, i - 1) + (IF h[i].color = c THEN h[i].captured ELSE 0)

C22_StoneConservation ==
    LET h == gs.history
    IN  /\ StonesOf(Now, BLACK) = PlaysOf(h, BLACK) - gs.captures_white
        /\ StonesOf(Now, WHITE) = PlaysOf(h, WHITE) - gs.captures_black
        /\ gs.captures_black = CapturedBy(h, BLACK, Len(h))
        /\ gs.captures_white = CapturedBy(h, WHITE, Len(h))

\* A play has just taken stones, and stones of both colours remain.
C22_Witness ==
    /\ PlayedOk
    /\ Removed(Was, Now) # {}
    /\ gs.captures_black + gs.captures_white > 0
    /\ StonesOf(Now, BLACK) > 0
    /\ StonesOf(Now, WHITE) > 0
    /\ PlaysOf(gs.history, BLACK) > StonesOf(Now, BLACK)
       \/ PlaysOf(gs.history, WHITE) > StonesOf(Now, WHITE)

-----------------------------------------------------------------------------
(* C23: for every board evaluate_territory counts every empty point        *)
(* exactly once and no occupied point: while it runs no point is counted   *)
(* twice and no stone is counted, the three counters add up to the points  *)
(* counted so far, and when it returns every empty point has been counted  *)
(* and territory_black + territory_white + neutral is the number of empty  *)
(* points.                                                                 *)
RECURSIVE SumOver(_, _)
SumOver(f, S) ==
    IF S = {} THEN 0
    ELSE LET q == CHOOSE x \in S : TRUE IN f[q] + SumOver(f, S \ {q})

Empties(board) == { q \in Points(board.size) : get(board, q) = Empty }

C23_EveryEmptyPointOnce ==
    LET b == teval.board
        t == teval.acc
        total == t.territory_black + t.territory_white + t.neutral
    IN  /\ \A q \in Points(b.size) : teval.counted[q] <= 1
        /\ \A q \in Points(b.size) \ Empties(b) : teval.counted[q] = 0
        /\ total = SumOver(teval.counted, Points(b.size))
        /\ teval.pc = "done" =>
              /\ \A q \in Empties(b) : teval.counted[q] = 1
              /\ total = Cardinality(Empties(b))
              /\ t = evaluate_territory(b)

\* Returned on a 3x3 board with a black corner, a white corner and a
\* neutral region, stones of both colours left uncounted.
C23_Witness ==
    /\ teval.pc = "done"
    /\ teval.board.size = 3
    /\ teval.acc.territory_black > 0
    /\ teval.acc.territory_white > 0
    /\ teval.acc.neutral > 1
    /\ \E q \in Points(3) : get(teval.board, q) = BLACK
    /\ \E q \in Points(3) : get(teval.board, q) = WHITE

-----------------------------------------------------------------------------
(* C24: a click whose play the engine rejects keeps the prior session:     *)
(* after on_click handled a point for which play raised a GoError, the     *)
(* current state, the undo stack and the redo stack are as they were       *)
(* before the click.                                                       *)
C24_RejectedClickKeepsSession ==
    [][(op'.name = "on_click" /\ op'.err \in GoError)
       => /\ app'.state = app.state
          /\ app'.undo_stack = app.undo_stack
          /\ app'.redo_stack = app.redo_stack]_vars

\* What the handler does keep on a rejected click: the state and the undo
\* stack.
C24_RejectedClickKeepsUndo ==
    [][(op'.name = "on_click" /\ op'.err \in GoError)
       => /\ app'.state = app.state
          /\ app'.undo_stack = app.undo_stack]_vars

-----------------------------------------------------------------------------
(* C25: while an AI move is pending (ai_busy is true, between maybe_ai_turn *)
(* scheduling do_ai_turn and do_ai_turn running) no user handler changes    *)
(* the game state or the undo and redo stacks, so do_ai_turn runs on the    *)
(* state it was scheduled for, and at most one AI move is pending.          *)
UserHandlers ==
    {"on_click", "on_pass", "on_undo", "on_redo", "on_new_game",
     "apply_board_size", "on_load", "toggle_ai"}

C25_PendingAiMoveUndisturbed ==
    /\ [](/\ app.timers <= 1
          /\ app.ai_busy <=> app.timers = 1
          /\ app.ai_busy => app.scheduled_for = Some(app.state))
    /\ [][(app.ai_busy /\ op'.name \in UserHandlers)
          => /\ app'.state = app.state
             /\ app'.undo_stack = app.undo_stack
             /\ app'.redo_stack = app.redo_stack
             /\ app'.timers = app.timers]_vars

\* An AI move is pending, the undo stack holds the state before the user's
\* move, and the last handler called was on_undo.
C25_Witness ==
    /\ app.ai_busy
    /\ app.timers = 1
    /\ app.undo_stack # << >>
    /\ op.name = "on_undo"

-----------------------------------------------------------------------------
(* C26: the window never rests on the AI's turn with nothing scheduled:    *)
(* between handler runs, whenever the game is not over, the AI is enabled  *)
(* and next_player is the AI's colour, an AI move is pending (ai_busy).    *)
C26_AiTurnAlwaysScheduled ==
    (~app.state.is_over /\ AiToMove(app)) => app.ai_busy

\* Every handler but on_undo leaves an AI move pending when it hands the
\* turn to the AI.
C26_ScheduledUnlessUndone ==
    [][(op'.name # "on_undo" /\ app' # app)
       => ((~app'.state.is_over /\ AiToMove(app')) => app'.ai_busy)]_vars

====
